---- MODULE Spec2Model ----
(***************************************************************************)
(* Model of the lead registry of pratica/models/leads.py: the classes      *)
(* Lead and HotLead, whose construction classifies a contact record and    *)
(* stores its dump in the class-level dictionary Lead.__leads__, and the   *)
(* lookup, listing and deletion functions over that dictionary.            *)
(*                                                                         *)
(* Optional values are encoded as sequences: None is <<>> and a present    *)
(* value x is <<x>>.  A keyword argument the caller did not pass holds the *)
(* marker of its type (NoPriority, NoType, NoId).                          *)
(***************************************************************************)
EXTENDS Integers, Sequences, FiniteSets

\* ---------------------------------------------------------------- bounds
MaxLeads == 2

\* ------------------------------------------------------------ enumerations
Low == 1
Medium == 2
High == 4
Priority == {Low, Medium, High}

Cold == "cold"
Warm == "warm"
Hot == "hot"
LeadType == {Cold, Warm, Hot}

NoPriority == 0
NoType == "unset"
NoId == 0

None == <<>>
Some(x) == <<x>>

\* ------------------------------------------------------------ input domains
StringID == 1..MaxLeads

Bob == Some("Bob")
Address == Some("Rua das Flores, 200")
Phone == Some("+5511888888888")
LAND == "land"
Now == Some("now")

\* The contact records a caller submits: the complete one of
\* test_hot_lead_from_lead, and the same record with one field left out
\* (None) or with an empty list of interests.
Complete == [name |-> Bob, address |-> Address, phone |-> Phone, interests |-> Some(<<LAND>>)]
Contacts ==
    {Complete,
     [Complete EXCEPT !.name = None],
     [Complete EXCEPT !.address = None],
     [Complete EXCEPT !.phone = None],
     [Complete EXCEPT !.interests = None],
     [Complete EXCEPT !.interests = Some(<<>>)]}

\* Email arguments: None, and two spellings of the address of the tests.
RawEmails ==
    {None,
     Some([local |-> "bob", domain |-> "mail.com"]),
     Some([local |-> "bob", domain |-> "MAIL.COM"])}

\* The priority and lead_type a caller passes (or leaves out).
LeadTiers == {<<NoPriority, NoType>>, <<High, Hot>>}
HotTiers == {<<High, Hot>>, <<Medium, Hot>>, <<High, Warm>>, <<NoPriority, Hot>>, <<High, NoType>>}
GivenIds == {NoId} \cup StringID

Kwargs(tiers) ==
    {[name |-> c.name, email |-> e, address |-> c.address, phone |-> c.phone,
      interests |-> c.interests, priority |-> t[1], lead_type |-> t[2],
      last_contact |-> Now, lead_id |-> k] :
        c \in Contacts, e \in RawEmails, t \in tiers, k \in GivenIds}

\* ------------------------------------------------------------------- state
VARIABLES leads, last, admitting
vars == <<leads, last, admitting>>

\* The dictionary Lead.__leads__: a sequence of [key, val] in insertion order.
Keys(reg) == {reg[i].key : i \in 1..Len(reg)}
Values(reg) == [i \in 1..Len(reg) |-> reg[i].val]
Lookup(reg, k) == (CHOOSE i \in 1..Len(reg) : reg[i].key = k)

\* uuid4(): an identifier no stored lead has (the least one, identifiers
\* being interchangeable tokens).
Fresh(reg) ==
    CHOOSE k \in 1..(Len(reg) + 1) :
        k \notin Keys(reg) /\ \A j \in 1..(Len(reg) + 1) : j \notin Keys(reg) => k <= j

\* reg[k] = val of a Python dict: replaces in place, or appends a new key.
SetItem(reg, k, val) ==
    IF k \in Keys(reg)
    THEN [reg EXCEPT ![Lookup(reg, k)] = [key |-> k, val |-> val]]
    ELSE Append(reg, [key |-> k, val |-> val])

\* del reg[k] for a key of the dictionary.
DelItem(reg, k) ==
    LET i == Lookup(reg, k)
    IN  SubSeq(reg, 1, i - 1) \o SubSeq(reg, i + 1, Len(reg))

\* EmailStr validation: the normalised address (the domain is lower-cased).
LowerCase(d) == IF d = "MAIL.COM" THEN "mail.com" ELSE d
validate_email(e) ==
    IF e = None THEN None
    ELSE Some([local |-> e[1].local, domain |-> LowerCase(e[1].domain)])

\* any(email == lead["email"] for lead in Lead.__leads__.values())
EmailStored(reg, email) == \E i \in 1..Len(reg) : reg[i].val.email = email

\* The outcome of a call: the exception raised ("" when none), its message,
\* the registry after the call and the value returned (None when it raised).
Raise(exc, msg, reg) == [exc |-> exc, msg |-> msg, leads |-> reg, ret |-> None]
Return(ret, reg) == [exc |-> "", msg |-> "", leads |-> reg, ret |-> Some(ret)]

\* model_dump() of a Lead or HotLead whose fields were validated from v.
Dump(v, priority, lead_type, lead_id) ==
    [name |-> v.name, email |-> validate_email(v.email), address |-> v.address,
     phone |-> v.phone, interests |-> v.interests, priority |-> priority,
     lead_type |-> lead_type, last_contact |-> v.last_contact, lead_id |-> lead_id]

\* lead_id: the caller's value, or default_factory=StringID.
LeadId(v, fresh) == IF v.lead_id = NoId THEN fresh ELSE v.lead_id

\* ----------------------------------------------------------------- HotLead
\* HotLead.qualify (mode="before"): "" when v passes, else the error.
qualify(v, reg) ==
    IF v.priority = NoPriority THEN <<"KeyError", "priority">>
    ELSE IF v.priority # High
    THEN <<"ValidationError", "Hot leads must have a high priority">>
    ELSE IF v.lead_type = NoType THEN <<"KeyError", "lead_type">>
    ELSE IF v.lead_type # Hot
    THEN <<"ValidationError", "Hot leads must have a hot lead type">>
    ELSE IF EmailStored(reg, v.email)
    THEN <<"ValidationError", "Lead already exists">>
    ELSE <<"", "">>

\* HotFieldsValid with address declared str | None, as Lead declares it.
HotFieldsValid_AddressOptional(v) ==
    /\ v.name # None
    /\ v.email # None
    /\ v.phone # None
    /\ v.interests # None

\* The fields of HotLead that are declared without None: name, email,
\* address, phone, interests.
HotFieldsValid(v) ==
    /\ v.name # None
    /\ v.email # None
    /\ v.address # None
    /\ v.phone # None
    /\ v.interests # None

\* HotLeadPostInit storing under a newly generated StringID().
HotLeadPostInit_NewId(self, reg) == SetItem(reg, Fresh(reg), self)

\* HotLead.model_post_init
HotLeadPostInit(self, reg) == SetItem(reg, self.lead_id, self)

\* HotLead(**v): qualify, then field validation, then model_post_init.
HotLeadNew(v, reg, fresh) ==
    LET q == qualify(v, reg)
        self == Dump(v, v.priority, v.lead_type, LeadId(v, fresh))
    IN  IF q[1] # "" THEN Raise(q[1], q[2], reg)
        ELSE IF ~HotFieldsValid(v)
        THEN Raise("ValidationError", "Input should be a valid value", reg)
        ELSE Return(self, HotLeadPostInit(self, reg))

\* -------------------------------------------------------------------- Lead
\* validate_lead that keeps a priority and lead_type the caller passed.
validate_lead_KeepsGiven(v) ==
    IF v.priority # NoPriority /\ v.lead_type # NoType THEN v
    ELSE IF v.name = None \/ v.email = None
    THEN [v EXCEPT !.priority = Low, !.lead_type = Cold]
    ELSE [v EXCEPT !.priority = Medium, !.lead_type = Warm]

\* validate_lead with all() for any(): Cold only when name and email are None.
validate_lead_All(v) ==
    IF v.name = None /\ v.email = None
    THEN [v EXCEPT !.priority = Low, !.lead_type = Cold]
    ELSE [v EXCEPT !.priority = Medium, !.lead_type = Warm]

\* Lead.validate_lead (mode="before"): overwrites priority and lead_type.
validate_lead(v) ==
    IF v.name = None \/ v.email = None
    THEN [v EXCEPT !.priority = Low, !.lead_type = Cold]
    ELSE [v EXCEPT !.priority = Medium, !.lead_type = Warm]

\* analize_quality without the HotLead probe: every lead is returned as
\* validate_lead classified it.
analize_quality_NeverPromotes(self, reg) ==
    [self |-> self, lead |-> Some(self), leads |-> reg]

\* analize_quality that returns self after a successful promotion.
analize_quality_ReturnsSelf(self, reg) ==
    IF self.priority = Low /\ self.lead_type = Cold
    THEN [self |-> self, lead |-> Some(self), leads |-> reg]
    ELSE IF self.interests # None /\ Len(self.interests[1]) > 0
    THEN LET hot == [self EXCEPT !.priority = High, !.lead_type = Hot]
             probe == HotLeadNew(hot, reg, hot.lead_id)
             warm == [self EXCEPT !.priority = Medium, !.lead_type = Warm]
         IN  IF probe.exc = ""
             THEN [self |-> hot, lead |-> Some(hot), leads |-> probe.leads]
             ELSE [self |-> warm, lead |-> Some(warm), leads |-> reg]
    ELSE [self |-> self, lead |-> Some(self), leads |-> reg]

\* Lead.analize_quality: the lead as it leaves the method (self), the value
\* returned (lead: None after a successful promotion) and the registry.
analize_quality(self, reg) ==
    IF self.priority = Low /\ self.lead_type = Cold
    THEN [self |-> self, lead |-> Some(self), leads |-> reg]
    ELSE IF self.interests # None /\ Len(self.interests[1]) > 0
    THEN LET hot == [self EXCEPT !.priority = High, !.lead_type = Hot]
             probe == HotLeadNew(hot, reg, hot.lead_id)
             warm == [self EXCEPT !.priority = Medium, !.lead_type = Warm]
         IN  IF probe.exc = ""
             THEN [self |-> hot, lead |-> None, leads |-> probe.leads]
             ELSE [self |-> warm, lead |-> Some(warm), leads |-> reg]
    ELSE [self |-> self, lead |-> Some(self), leads |-> reg]

\* LeadPostInit that assigns the dict item before the duplicate check.
LeadPostInit_StoresFirst(self, reg) ==
    LET q == analize_quality(self, reg)
    IN  IF q.lead = None THEN Return(q.self, q.leads)
        ELSE IF EmailStored(q.leads, q.lead[1].email)
        THEN Raise("ValueError", "Lead already exists",
                   SetItem(q.leads, q.self.lead_id, q.lead[1]))
        ELSE Return(q.self, SetItem(q.leads, q.self.lead_id, q.lead[1]))

\* Lead.model_post_init
LeadPostInit(self, reg) ==
    LET q == analize_quality(self, reg)
    IN  IF q.lead = None THEN Return(q.self, q.leads)
        ELSE IF EmailStored(q.leads, q.lead[1].email)
        THEN Raise("ValueError", "Lead already exists", q.leads)
        ELSE Return(q.self, SetItem(q.leads, q.self.lead_id, q.lead[1]))

\* Lead(**v): validate_lead, then field validation, then model_post_init.
LeadNew(v, reg, fresh) ==
    LET w == validate_lead(v)
        self == Dump(w, w.priority, w.lead_type, LeadId(w, fresh))
    IN  LeadPostInit(self, reg)

\* ----------------------------------------------------- lookup and deletion
RECURSIVE Insert_Unstable(_, _)
\* Insert that puts x before the elements of its own key (an ascending sort
\* reversed).
Insert_Unstable(sorted, x) ==
    IF sorted = <<>> THEN <<x>>
    ELSE IF Head(sorted).priority > x.priority
    THEN <<Head(sorted)>> \o Insert_Unstable(Tail(sorted), x)
    ELSE <<x>> \o sorted

RECURSIVE Insert(_, _)
\* One step of the stable sort: x goes after every element of key >= its own.
Insert(sorted, x) ==
    IF sorted = <<>> THEN <<x>>
    ELSE IF Head(sorted).priority >= x.priority
    THEN <<Head(sorted)>> \o Insert(Tail(sorted), x)
    ELSE <<x>> \o sorted

RECURSIVE SortByPriority(_)
\* sorted(values, key=lambda x: x["priority"], reverse=True)
SortByPriority(values) ==
    IF values = <<>> THEN <<>>
    ELSE Insert(SortByPriority(SubSeq(values, 1, Len(values) - 1)),
                values[Len(values)])

\* get_lead that looks the identifier up among the values, not the keys.
get_lead_ChecksValues(lead_id, sort, reg) ==
    IF sort THEN Return(SortByPriority(Values(reg)), reg)
    ELSE IF lead_id = NoId THEN Return(Values(reg), reg)
    ELSE Raise("ValueError", "Lead not found", reg)

\* Lead.get_lead(lead_id, sort); lead_id NoId stands for the default None.
get_lead(lead_id, sort, reg) ==
    IF sort THEN Return(SortByPriority(Values(reg)), reg)
    ELSE IF lead_id = NoId THEN Return(Values(reg), reg)
    ELSE IF lead_id \notin Keys(reg) THEN Raise("ValueError", "Lead not found", reg)
    ELSE Return(reg[Lookup(reg, lead_id)].val, reg)

\* Lead.delete_lead(lead_id)
delete_lead(lead_id, reg) ==
    IF lead_id \notin Keys(reg) THEN Raise("KeyError", "lead_id", reg)
    ELSE Return(None, DelItem(reg, lead_id))

\* ------------------------------------------------------------------ routes
\* What a route hands to the client: the status code and the body.
Response(status_code, body, reg) ==
    Return([status_code |-> status_code, body |-> body], reg)

\* GET /leads/{lead_id}: a ValueError of get_lead becomes a 404.
read_lead(lead_id, reg) ==
    LET r == get_lead(lead_id, FALSE, reg)
    IN  IF r.exc = "ValueError"
        THEN Response(404, [detail |-> r.msg], r.leads)
        ELSE Response(200, r.ret[1], r.leads)

\* GET /leads?sort=bool
read_leads(sort, reg) ==
    LET r == get_lead(NoId, sort, reg)
    IN  Response(200, r.ret[1], r.leads)

\* lead_id: int of DELETE /leads/{lead_id}: the int the path segment k spells.
\* A value of type int equals no str key of the registry; identifiers being
\* the positive tokens, the int is written as the negative of the token.
IntOf(k) == 0 - k

\* DELETE /leads/{lead_id}.  digits tells whether the path segment spells a
\* decimal integer (a lead_id passed by a caller can, a uuid4 does not): if
\* not, the request is answered 422 before the route runs; a KeyError of
\* Lead.delete_lead is not handled by the route.
route_delete_lead(lead_id, digits, reg) ==
    IF ~digits
    THEN Response(422, [detail |-> "Input should be a valid integer"], reg)
    ELSE LET r == delete_lead(IntOf(lead_id), reg)
         IN  IF r.exc # "" THEN Raise(r.exc, r.msg, r.leads)
             ELSE Response(200, [message |-> "Lead deleted successfully"], r.leads)

\* ----------------------------------------------------------------- actions
\* The record of the last call: its name, arguments and outcome.
Call(op, args, r) ==
    [op |-> op, args |-> args, exc |-> r.exc, msg |-> r.msg, ret |-> r.ret]

NoArgs == [lead_id |-> NoId]
Idle == [op |-> "idle", args |-> NoArgs, exc |-> "", msg |-> "", ret |-> None]

\* The callers that construct leads concurrently (two threads of one process).
Threads == {1, 2}

\* The admission a thread is running: its position (pc), the dump it is
\* about to store (lead, None before construction), the class whose
\* model_post_init stores it (by), and whether it passed its duplicate check
\* while another thread had passed the check for the same email and had not
\* stored yet (raced).
NotAdmitting == [pc |-> "start", lead |-> None, by |-> "", raced |-> FALSE]

Init ==
    /\ leads = <<>>
    /\ last = Idle
    /\ admitting = [t \in Threads |-> NotAdmitting]

\* A caller constructs a Lead (also the body of POST /leads).
NewLead ==
    /\ last = Idle
    /\ \E v \in Kwargs(LeadTiers) :
        LET r == LeadNew(v, leads, Fresh(leads))
        IN  /\ Len(r.leads) <= MaxLeads
            /\ leads' = r.leads
            /\ last' = Call("Lead", v, r)
            /\ UNCHANGED admitting

\* A caller constructs a HotLead directly.
NewHotLead ==
    /\ last = Idle
    /\ \E v \in Kwargs(HotTiers) :
        LET r == HotLeadNew(v, leads, Fresh(leads))
        IN  /\ Len(r.leads) <= MaxLeads
            /\ leads' = r.leads
            /\ last' = Call("HotLead", v, r)
            /\ UNCHANGED admitting

GetLead ==
    /\ last = Idle
    /\ \E lead_id \in GivenIds, sort \in BOOLEAN :
        LET r == get_lead(lead_id, sort, leads)
        IN  /\ leads' = r.leads
            /\ last' = Call("get_lead", [lead_id |-> lead_id, sort |-> sort], r)
            /\ UNCHANGED admitting

DeleteLead ==
    /\ last = Idle
    /\ \E lead_id \in StringID :
        LET r == delete_lead(lead_id, leads)
        IN  /\ leads' = r.leads
            /\ last' = Call("delete_lead", [lead_id |-> lead_id], r)
            /\ UNCHANGED admitting

ReadLead ==
    /\ last = Idle
    /\ \E lead_id \in StringID :
        LET r == read_lead(lead_id, leads)
        IN  /\ leads' = r.leads
            /\ last' = Call("read_lead", [lead_id |-> lead_id], r)
            /\ UNCHANGED admitting

ReadLeads ==
    /\ last = Idle
    /\ \E sort \in BOOLEAN :
        LET r == read_leads(sort, leads)
        IN  /\ leads' = r.leads
            /\ last' = Call("read_leads", [lead_id |-> NoId, sort |-> sort], r)
            /\ UNCHANGED admitting

DeleteLeadRoute ==
    /\ last = Idle
    /\ \E lead_id \in StringID, digits \in BOOLEAN :
        LET r == route_delete_lead(lead_id, digits, leads)
        IN  /\ leads' = r.leads
            /\ last' = Call("route_delete_lead",
                            [lead_id |-> lead_id, digits |-> digits], r)
            /\ UNCHANGED admitting

\* The caller takes the outcome of the call; the next call can start.
Done ==
    /\ last # Idle
    /\ last' = Idle
    /\ UNCHANGED <<leads, admitting>>

Next ==
    \/ NewLead
    \/ NewHotLead
    \/ GetLead
    \/ DeleteLead
    \/ ReadLead
    \/ ReadLeads
    \/ DeleteLeadRoute
    \/ Done

Spec == Init /\ [][Next]_vars

\* --------------------------------------------------- concurrent admissions
\* Two threads construct one lead each.  A step of a thread runs up to and
\* including one read of Lead.__leads__ (a duplicate check) or is the write
\* of model_post_init; the interpreter can switch threads between them.

\* The keyword arguments of a thread's admission: the records of the callers
\* that pass no lead_id (the tests, POST /leads with the contact fields).
ThreadKwargs(tiers) == {v \in Kwargs(tiers) : v.lead_id = NoId}

\* The identifiers of the leads the threads have constructed.
Held == {admitting[u].lead[1].lead_id : u \in {x \in Threads : admitting[x].lead # None}}

\* uuid4() in a thread: an identifier of no stored and no constructed lead.
FreshAmong(used) ==
    CHOOSE k \in 1..(Cardinality(used) + 1) :
        k \notin used /\ \A j \in 1..(Cardinality(used) + 1) : j \notin used => k <= j

\* Another thread has passed the duplicate check for email and not stored yet.
Rival(t, email) ==
    \E u \in Threads \ {t} :
        admitting[u].pc = "insert" /\ admitting[u].lead[1].email = email

\* The duplicate check passed: the dump lead waits for model_post_init of by.
Passed(t, lead, by) ==
    [pc |-> "insert", lead |-> Some(lead), by |-> by, raced |-> Rival(t, lead.email)]

\* The construction raised.
Failed == [pc |-> "failed", lead |-> None, by |-> "", raced |-> FALSE]

\* Lead(**v) up to its first read of the registry: validate_lead, field
\* validation, and in analize_quality either the qualify of the HotLead
\* probe or, for a Cold lead or one without interests, the duplicate check
\* of model_post_init.
AdmitLead(t) ==
    /\ admitting[t].pc = "start"
    /\ \E v \in ThreadKwargs({<<NoPriority, NoType>>}) :
        LET w == validate_lead(v)
            self == Dump(w, w.priority, w.lead_type, FreshAmong(Keys(leads) \cup Held))
            hot == [self EXCEPT !.priority = High, !.lead_type = Hot]
            warm == [self EXCEPT !.priority = Medium, !.lead_type = Warm]
        IN  admitting' = [admitting EXCEPT ![t] =
                IF self.priority = Low /\ self.lead_type = Cold
                THEN IF EmailStored(leads, self.email) THEN Failed
                     ELSE Passed(t, self, "Lead")
                ELSE IF self.interests # None /\ Len(self.interests[1]) > 0
                THEN IF qualify(hot, leads)[1] = "" /\ HotFieldsValid(hot)
                     THEN Passed(t, hot, "HotLead")
                     ELSE [pc |-> "check", lead |-> Some(warm), by |-> "Lead",
                           raced |-> FALSE]
                ELSE IF EmailStored(leads, self.email) THEN Failed
                     ELSE Passed(t, self, "Lead")]
    /\ UNCHANGED <<leads, last>>

\* The duplicate check of Lead.model_post_init after a failed HotLead probe.
CheckLead(t) ==
    /\ admitting[t].pc = "check"
    /\ admitting' = [admitting EXCEPT ![t] =
            IF EmailStored(leads, admitting[t].lead[1].email) THEN Failed
            ELSE Passed(t, admitting[t].lead[1], "Lead")]
    /\ UNCHANGED <<leads, last>>

\* HotLead(**v) up to model_post_init: qualify and field validation.
AdmitHotLead(t) ==
    /\ admitting[t].pc = "start"
    /\ \E v \in ThreadKwargs({<<High, Hot>>}) :
        LET self == Dump(v, v.priority, v.lead_type, FreshAmong(Keys(leads) \cup Held))
        IN  admitting' = [admitting EXCEPT ![t] =
                IF qualify(v, leads)[1] = "" /\ HotFieldsValid(v)
                THEN Passed(t, self, "HotLead")
                ELSE Failed]
    /\ UNCHANGED <<leads, last>>

\* Stored as one insert-if-absent: nothing is written when an entry holds
\* the email.
Stored_IfAbsent(a, reg) ==
    IF EmailStored(reg, a.lead[1].email) THEN reg
    ELSE SetItem(reg, a.lead[1].lead_id, a.lead[1])

\* The write of model_post_init (of HotLead, or of Lead) for the admission a.
Stored(a, reg) ==
    IF a.by = "HotLead" THEN HotLeadPostInit(a.lead[1], reg)
    ELSE SetItem(reg, a.lead[1].lead_id, a.lead[1])

\* model_post_init stores the dump; no check is made at this point.
Store(t) ==
    /\ admitting[t].pc = "insert"
    /\ leads' = Stored(admitting[t], leads)
    /\ admitting' = [admitting EXCEPT ![t].pc = "done"]
    /\ UNCHANGED last

NextThreads ==
    \E t \in Threads :
        \/ AdmitLead(t)
        \/ AdmitHotLead(t)
        \/ CheckLead(t)
        \/ Store(t)

SpecThreads == Init /\ [][NextThreads]_vars

\* ------------------------------------------------------------------ claims
\* A step that runs the call op, from the state before it to the state after.
Calls(ops) == last = Idle /\ last'.op \in ops

\* The email of the lead the arguments of the step's call describe.
EmailOfCall == validate_email(last'.args.email)

\* C1: the registry holds at most one entry per email: no two entries stored
\* under different identifiers have equal email fields.
C1_OneEntryPerEmail ==
    \A i, j \in 1..Len(leads) :
        leads[i].key # leads[j].key => leads[i].val.email # leads[j].val.email

\* A HotLead call that asserts priority High and lead_type Hot.
AssertsHot(a) == a.priority = High /\ a.lead_type = Hot

\* C2: constructing a Lead, or a HotLead asserting High/Hot, whose email
\* equals the email of a stored entry fails with 'Lead already exists', and
\* the registry has as many entries afterwards as before.
C2_DuplicateFails ==
    [][(/\ Calls({"Lead", "HotLead"})
        /\ last'.op = "HotLead" => AssertsHot(last'.args)
        /\ EmailStored(leads, EmailOfCall))
        => (last'.msg = "Lead already exists" /\ Len(leads') = Len(leads))]_vars

\* The arguments carry a non-empty list of interests.
HasInterests(a) == a.interests # None /\ Len(a.interests[1]) > 0

\* The entries of the registry reg that hold the email e.
EntriesOf(reg, e) == {i \in 1..Len(reg) : reg[i].val.email = e}

\* The step is a Lead construction that ends High/Hot and leaves exactly one
\* registry entry for the lead: its dump, under its lead_id.
PromotedOnce ==
    /\ last'.exc = ""
    /\ last'.ret[1].priority = High
    /\ last'.ret[1].lead_type = Hot
    /\ Cardinality(EntriesOf(leads', last'.ret[1].email)) = 1
    /\ \E i \in 1..Len(leads') :
        leads'[i] = [key |-> last'.ret[1].lead_id, val |-> last'.ret[1]]
    /\ Len(leads') <= Len(leads) + 1

\* The step is a HotLead admission that repeats a stored email with the
\* High/Hot fields; it fails with the duplicate error and stores nothing.
RepeatedHotFails ==
    (/\ Calls({"HotLead"})
     /\ AssertsHot(last'.args)
     /\ EmailStored(leads, last'.args.email))
    => (/\ last'.exc = "ValidationError"
        /\ last'.msg = "Lead already exists"
        /\ leads' = leads)

C4_WarmFallback ==
    [][(/\ Calls({"Lead"})
        /\ last'.args.name # None
        /\ last'.args.email # None
        /\ HasInterests(last'.args)
        /\ last'.args.address = None \/ last'.args.phone = None
        /\ ~EmailStored(leads, EmailOfCall))
        => (/\ last'.exc = ""
            /\ last'.ret[1].priority = Medium
            /\ last'.ret[1].lead_type = Warm
            /\ \E i \in 1..Len(leads') :
                leads'[i] = [key |-> last'.ret[1].lead_id, val |-> last'.ret[1]]
            /\ \A i \in 1..Len(leads') :
                leads'[i].val.lead_type = Hot
                    => /\ leads'[i].val.email # last'.ret[1].email
                       /\ \E j \in 1..Len(leads) : leads[j] = leads'[i])]_vars

\* A Lead with interests and no address was stored as Medium/Warm.
C4_Witness ==
    /\ last.op = "Lead"
    /\ last.exc = ""
    /\ HasInterests(last.args)
    /\ last.args.address = None
    /\ last.ret[1].lead_type = Warm
    /\ \E i \in 1..Len(leads) : leads[i].val = last.ret[1]

\* C5: every Lead constructed with name and email and with interests None or
\* empty has priority Medium and lead_type Warm, whatever priority and
\* lead_type the caller passed.
C5_WarmWithoutInterests ==
    (/\ last.op = "Lead"
     /\ last.exc = ""
     /\ last.args.name # None
     /\ last.args.email # None
     /\ ~HasInterests(last.args))
    => (last.ret[1].priority = Medium /\ last.ret[1].lead_type = Warm)

\* A caller passed High/Hot with an empty list of interests: the lead is Warm.
C5_Witness ==
    /\ last.op = "Lead"
    /\ last.exc = ""
    /\ last.args.interests = Some(<<>>)
    /\ AssertsHot(last.args)
    /\ last.ret[1].lead_type = Warm

\* C6: every Lead constructed with name None or email None has priority Low
\* and lead_type Cold, whatever its other fields and whatever priority and
\* lead_type the caller passed.
C6_ColdWithoutNameOrEmail ==
    (/\ last.op = "Lead"
     /\ last.exc = ""
     /\ last.args.name = None \/ last.args.email = None)
    => (last.ret[1].priority = Low /\ last.ret[1].lead_type = Cold)

\* A caller passed High/Hot, interests, address and phone but no name: the
\* lead is Cold.
C6_Witness ==
    /\ last.op = "Lead"
    /\ last.exc = ""
    /\ last.args.name = None
    /\ last.args.email # None
    /\ HasInterests(last.args)
    /\ AssertsHot(last.args)
    /\ last.ret[1].lead_type = Cold

\* C7: after every successful Lead construction the registry holds, under the
\* lead's lead_id, a snapshot equal to the lead's dump (final priority and
\* lead_type included).
C7_StoredUnderOwnId ==
    (last.op = "Lead" /\ last.exc = "")
    => \E i \in 1..Len(leads) :
        leads[i] = [key |-> last.ret[1].lead_id, val |-> last.ret[1]]

\* A Lead promoted to Hot under a lead_id the caller chose is in the registry.
C7_Witness ==
    /\ last.op = "Lead"
    /\ last.exc = ""
    /\ last.args.lead_id # NoId
    /\ last.ret[1].lead_type = Hot
    /\ \E i \in 1..Len(leads) : leads[i].val = last.ret[1]

\* C8: a direct HotLead construction (passing a priority and a lead_type) is
\* admitted only if its priority is High, its lead_type is Hot and no entry
\* has the same email; when one of the three fails, the construction fails
\* with a validation error and nothing is stored.
C8_HotAdmission ==
    [][(/\ Calls({"HotLead"})
        /\ last'.args.priority # NoPriority
        /\ last'.args.lead_type # NoType)
        => IF /\ AssertsHot(last'.args)
              /\ ~EmailStored(leads, EmailOfCall)
           THEN TRUE
           ELSE last'.exc = "ValidationError" /\ leads' = leads]_vars

\* C9: get_lead with an identifier and sort false returns the snapshot stored
\* under that identifier, or fails with 'Lead not found' when it is no key;
\* GET /leads/{lead_id} answers that error with 404.  The registry is
\* unchanged in both cases.
C9_Lookup ==
    [][/\ (Calls({"get_lead"}) /\ ~last'.args.sort /\ last'.args.lead_id # NoId)
            => /\ leads' = leads
               /\ IF \E i \in 1..Len(leads) : leads[i].key = last'.args.lead_id
                  THEN /\ last'.exc = ""
                       /\ \E i \in 1..Len(leads) :
                            /\ leads[i].key = last'.args.lead_id
                            /\ last'.ret[1] = leads[i].val
                  ELSE last'.exc = "ValueError" /\ last'.msg = "Lead not found"
       /\ Calls({"read_lead"})
            => /\ leads' = leads
               /\ IF \E i \in 1..Len(leads) : leads[i].key = last'.args.lead_id
                  THEN /\ last'.ret[1].status_code = 200
                       /\ \E i \in 1..Len(leads) :
                            /\ leads[i].key = last'.args.lead_id
                            /\ last'.ret[1].body = leads[i].val
                  ELSE /\ last'.ret[1].status_code = 404
                       /\ last'.ret[1].body.detail = "Lead not found"]_vars

\* GET /leads/{lead_id} answered 404 for an identifier that is no key of a
\* registry that holds leads.
C9_Witness ==
    /\ last.op = "read_lead"
    /\ Len(leads) > 0
    /\ last.args.lead_id \notin Keys(leads)
    /\ last.ret[1].status_code = 404

\* The one-to-one mappings of 1..n onto itself.
Orderings(n) ==
    {p \in [1..n -> 1..n] : \A i, j \in 1..n : i # j => p[i] # p[j]}

\* out has the elements of in, each once.
SameSnapshots(out, in) ==
    /\ Len(out) = Len(in)
    /\ \E p \in Orderings(Len(in)) : \A i \in 1..Len(in) : out[i] = in[p[i]]

\* out has the elements of in, each once, by non-increasing priority, equal
\* priorities in the order of in.
DescendingStable(out, in) ==
    /\ Len(out) = Len(in)
    /\ \E p \in Orderings(Len(in)) :
        /\ \A i \in 1..Len(in) : out[i] = in[p[i]]
        /\ \A i, j \in 1..Len(in) :
            i < j => \/ out[i].priority > out[j].priority
                     \/ out[i].priority = out[j].priority /\ p[i] < p[j]

\* C10: get_lead with sort true returns every snapshot exactly once by
\* non-increasing priority, equal priorities in insertion order; with sort
\* false and no identifier it returns every snapshot exactly once.  Neither
\* call changes the registry.
C10_Listing ==
    [][/\ (Calls({"get_lead"}) /\ last'.args.sort)
            => /\ leads' = leads
               /\ last'.exc = ""
               /\ DescendingStable(last'.ret[1], Values(leads))
       /\ (Calls({"get_lead"}) /\ ~last'.args.sort /\ last'.args.lead_id = NoId)
            => /\ leads' = leads
               /\ last'.exc = ""
               /\ SameSnapshots(last'.ret[1], Values(leads))
       /\ Calls({"read_leads"})
            => /\ leads' = leads
               /\ last'.ret[1].status_code = 200
               /\ IF last'.args.sort
                  THEN DescendingStable(last'.ret[1].body, Values(leads))
                  ELSE SameSnapshots(last'.ret[1].body, Values(leads))]_vars

\* A sorted listing of two leads that puts the later, higher one first.
C10_Witness ==
    /\ last.op = "get_lead"
    /\ last.args.sort
    /\ Len(leads) = 2
    /\ last.ret[1] = <<leads[2].val, leads[1].val>>
    /\ leads[2].val.priority > leads[1].val.priority

\* Every entry of the registry reg is a Warm or a Cold lead.
OnlyWarmCold(reg) == \A i \in 1..Len(reg) : reg[i].val.lead_type \in {Warm, Cold}

\* The registry after is the registry before without the entry of key k, the
\* other entries unchanged and in their order.
RemovedExactly(before, after, k) ==
    /\ Len(after) = Len(before) - 1
    /\ k \notin Keys(after)
    /\ \A i \in 1..Len(before) :
        before[i].key # k => \E j \in 1..Len(after) : after[j] = before[i]

\* C11: in a registry of Warm and Cold leads every successful construction of
\* a Warm or Cold Lead (its email differs from every stored one) adds one
\* entry, so that N insertions from the empty registry give N entries; and
\* delete_lead with the identifier of an entry removes exactly that entry.
C11_RoundTrip ==
    [][/\ (/\ Calls({"Lead"})
           /\ OnlyWarmCold(leads)
           /\ last'.exc = ""
           /\ last'.ret[1].lead_type \in {Warm, Cold})
            => /\ Len(leads') = Len(leads) + 1
               /\ \A i \in 1..Len(leads) : leads'[i] = leads[i]
       /\ (Calls({"delete_lead"}) /\ last'.args.lead_id \in Keys(leads))
            => /\ last'.exc = ""
               /\ RemovedExactly(leads, leads', last'.args.lead_id)]_vars

\* C12: DELETE /leads/{lead_id} called with the identifier under which a lead
\* is stored removes that entry, the other entries unchanged, and returns the
\* confirmation message.
C12_DeleteRoute ==
    [][(Calls({"route_delete_lead"}) /\ last'.args.lead_id \in Keys(leads))
        => /\ last'.exc = ""
           /\ last'.ret[1].status_code = 200
           /\ last'.ret[1].body.message = "Lead deleted successfully"
           /\ RemovedExactly(leads, leads', last'.args.lead_id)]_vars

\* C13: every successful admission (Lead or HotLead, lead_id generated or
\* passed by the caller) stores its snapshot under an identifier that was no
\* key of the registry: the registry grows by one entry and every entry it
\* held is still there, unchanged.
C13_FreshIdentifier ==
    [][(Calls({"Lead", "HotLead"}) /\ last'.exc = "")
        => /\ last'.ret[1].lead_id \notin Keys(leads)
           /\ Len(leads') = Len(leads) + 1
           /\ \A i \in 1..Len(leads) : leads'[i] = leads[i]]_vars

\* The snapshot of thread t is in the registry under its lead_id.
InRegistry(t) ==
    \E i \in 1..Len(leads) :
        leads[i] = [key |-> admitting[t].lead[1].lead_id, val |-> admitting[t].lead[1]]

\* C14: the duplicate check and the insert of an admission are separate
\* steps: when two admissions with the same email have both passed their
\* check before either stored, both are stored, and the registry holds two
\* entries with that email.
C14_CheckThenInsertRace ==
    \A t \in Threads : \A u \in Threads \ {t} :
        (/\ admitting[t].raced
         /\ admitting[t].pc = "done"
         /\ admitting[u].pc = "done")
        => /\ InRegistry(t)
           /\ InRegistry(u)
           /\ admitting[t].lead[1].email = admitting[u].lead[1].email
           /\ \E i, j \in 1..Len(leads) :
                /\ leads[i].key # leads[j].key
                /\ leads[i].val.email = leads[j].val.email

\* Two Lead admissions of one address, interleaved check, check, insert,
\* insert, have left two entries with that address.
C14_Witness ==
    /\ \E t \in Threads : admitting[t].raced
    /\ \A t \in Threads : admitting[t].pc = "done" /\ admitting[t].by = "Lead"
    /\ Len(leads) = 2
    /\ leads[1].val.email # None
    /\ leads[1].val.email = leads[2].val.email

\* The call of the step failed: it raised, or the route answered an error.
FailedCall ==
    \/ last'.exc # ""
    \/ /\ last'.op \in {"read_lead", "read_leads", "route_delete_lead"}
       /\ last'.ret[1].status_code >= 400

\* C15: every operation that fails leaves the registry as it was before the
\* call: a rejected Lead or HotLead, a lookup of an unknown identifier, and
\* delete_lead of an identifier that is no key, which fails with a KeyError
\* and not with the 'Lead not found' error.
C15_FailuresChangeNothing ==
    [][/\ (last = Idle /\ last' # Idle /\ FailedCall) => leads' = leads
       /\ (Calls({"delete_lead"}) /\ last'.args.lead_id \notin Keys(leads))
            => /\ last'.exc = "KeyError"
               /\ last'.msg # "Lead not found"
               /\ leads' = leads]_vars

\* A Lead with interests, address and phone was rejected as a duplicate of
\* the one stored lead: the probe and the check ran and stored nothing.
C15_Witness ==
    /\ last.op = "Lead"
    /\ last.msg = "Lead already exists"
    /\ HasInterests(last.args)
    /\ last.args.address # None
    /\ last.args.phone # None
    /\ Len(leads) = 1

\* The stored snapshot e has a consistent tier.
ConsistentTier(e) ==
    /\ IF e.name = None \/ e.email = None
       THEN e.priority = Low /\ e.lead_type = Cold
       ELSE <<e.priority, e.lead_type>> \in {<<Medium, Warm>>, <<High, Hot>>}
    /\ (e.priority = Medium /\ e.lead_type = Warm)
        => ~(HasInterests(e) /\ e.address # None /\ e.phone # None)

\* C16: in every reachable state each registry entry is Low/Cold when its
\* name or email is None and otherwise Medium/Warm or High/Hot, and no
\* Medium/Warm entry has non-empty interests together with an address and a
\* phone.
C16_ConsistentTiers == \A i \in 1..Len(leads) : ConsistentTier(leads[i].val)

\* The registry holds a Cold lead and a Warm lead that has interests (and
\* lacks the address or the phone).
C16_Witness ==
    \E i, j \in 1..Len(leads) :
        /\ leads[i].val.lead_type = Cold
        /\ leads[j].val.lead_type = Warm
        /\ HasInterests(leads[j].val)
====
